---------------------------- MODULE Spec2Model ----------------------------
(***************************************************************************)
(* A model of sdk/src/utils.ts: logAndThrow, parseJSON, get and post.      *)
(*                                                                         *)
(* Text is modelled by TLA+ strings (Len, SubSeq and \o act on them as on  *)
(* sequences of characters).  Each exported function is run by a caller    *)
(* that starts one call at a time; get and post are async functions and    *)
(* are split at their await.                                               *)
(***************************************************************************)
EXTENDS Integers, Sequences, FiniteSets, TLC

VARIABLES
    logPc,       \* position inside logAndThrow: idle, line2, line3, raised
    logMsg,      \* the message argument of the running call
    logSink,     \* everything written to console.error so far
    logAtCall,   \* the sink as it was when the running call started
    logRaised,   \* the Error thrown by the call, or None
    pc,          \* position of the get/post call: idle, awaiting, done
    fn,          \* which function is running: "get", "post" or None
    url,         \* the url argument
    given,       \* the options argument as the caller passed it
    options,     \* the caller's options object as it is now
    sent,        \* the requests handed to fetch by the running call
    promise,     \* the promise fetch returned: pending, fulfilled, rejected
    outcome,     \* how the call ended: None, returned or thrown
    jsonPc,      \* position of the parseJSON caller: idle or done
    jsonInput,   \* the json argument of the last parseJSON call
    jsonOutcome  \* how that call ended: None, returned or thrown

logVars  == <<logPc, logMsg, logSink, logAtCall, logRaised>>
httpVars == <<pc, fn, url, given, options, sent, promise, outcome>>
jsonVars == <<jsonPc, jsonInput, jsonOutcome>>
vars     == <<logVars, httpVars, jsonVars>>

None      == [kind |-> "none"]
Undefined == [kind |-> "undefined"]

----------------------------------------------------------------------------
(* Text helpers.                                                           *)

CharAt(s, i) == SubSeq(s, i, i)

\* s contains t as a contiguous substring.
Contains(s, t) ==
    \E i \in 1..(Len(s) - Len(t) + 1) : SubSeq(s, i, i + Len(t) - 1) = t

DigitChar(d) ==
    CASE d = 0 -> "0" [] d = 1 -> "1" [] d = 2 -> "2" [] d = 3 -> "3"
      [] d = 4 -> "4" [] d = 5 -> "5" [] d = 6 -> "6" [] d = 7 -> "7"
      [] d = 8 -> "8" [] d = 9 -> "9"

\* Number-to-string conversion of a non-negative integer, as the + operator
\* applies it to response.status.
RECURSIVE NumberToString(_)
NumberToString(n) ==
    IF n < 10 THEN DigitChar(n)
    ELSE NumberToString(n \div 10) \o DigitChar(n % 10)

----------------------------------------------------------------------------
(* logAndThrow                                                             *)

MaxLog == 3

Messages == {"", "boom", "no record"}

\* new Error(message)
NewError(message) == [kind |-> "Error", message |-> message]

LogAndThrowCall(message) ==
    /\ logPc = "idle"
    /\ Len(logSink) < MaxLog
    /\ logPc' = "line2"
    /\ logMsg' = message
    /\ logAtCall' = logSink
    /\ logRaised' = None
    /\ UNCHANGED logSink
    /\ UNCHANGED <<httpVars, jsonVars>>

\* Mutant: the message is written twice.
ConsoleErrorMutantTwice ==
    /\ logPc = "line2"
    /\ logSink' = Append(Append(logSink, logMsg), logMsg)
    /\ logPc' = "line3"
    /\ UNCHANGED <<logMsg, logAtCall, logRaised>>
    /\ UNCHANGED <<httpVars, jsonVars>>

\* console.error(message);
ConsoleError ==
    /\ logPc = "line2"
    /\ logSink' = Append(logSink, logMsg)
    /\ logPc' = "line3"
    /\ UNCHANGED <<logMsg, logAtCall, logRaised>>
    /\ UNCHANGED <<httpVars, jsonVars>>

\* throw new Error(message);
ThrowError ==
    /\ logPc = "line3"
    /\ logRaised' = NewError(logMsg)
    /\ logPc' = "raised"
    /\ UNCHANGED <<logMsg, logSink, logAtCall>>
    /\ UNCHANGED <<httpVars, jsonVars>>

\* The caller catches the failure and goes on; the sink keeps what was written.
LogCallerContinues ==
    /\ logPc = "raised"
    /\ logPc' = "idle"
    /\ logMsg' = ""
    /\ logRaised' = None
    /\ logAtCall' = logSink
    /\ UNCHANGED logSink
    /\ UNCHANGED <<httpVars, jsonVars>>

LogInit ==
    /\ logPc = "idle"
    /\ logMsg = ""
    /\ logSink = <<>>
    /\ logAtCall = <<>>
    /\ logRaised = None

LogNext ==
    \/ \E m \in Messages : LogAndThrowCall(m)
    \/ ConsoleError
    \/ ThrowError
    \/ LogCallerContinues

----------------------------------------------------------------------------
(* The transport: fetch and the Response it resolves with.                 *)

Urls ==
    { [kind |-> "string", text |-> "http://n/a"],
      [kind |-> "string", text |-> "/b?404"],
      [kind |-> "URL",    href |-> "http://n/c"] }

\* String conversion of the url argument: a string is itself, a URL object
\* converts to its href.
UrlToString(u) == IF u.kind = "URL" THEN u.href ELSE u.text

Fields == {"method", "headers", "body"}

FieldValues(f) ==
    CASE f = "method"  -> {"GET", "PUT", "POST"}
      [] f = "headers" -> {"h1"}
      [] f = "body"    -> {"x"}

\* RequestInit objects: any subset of the fields, each with one of its values.
RequestInits ==
    UNION { { [kind |-> "object", fields |-> g] :
                g \in { h \in [D -> {"GET", "PUT", "POST", "h1", "x"}] :
                          \A f \in D : h[f] \in FieldValues(f) } } :
            D \in SUBSET Fields }

Statuses == {0, 200, 204, 299, 300, 404, 500}

ResponseIds == {"r1", "r2"}

\* Response.ok: the status is in the range 200..299.
ResponseOk(status) == status >= 200 /\ status <= 299

Response(id, status) ==
    [kind |-> "Response", id |-> id, status |-> status, ok |-> ResponseOk(status)]

TransportErrors ==
    { [kind |-> "TypeError",  message |-> "fetch failed"],
      [kind |-> "AbortError", message |-> "aborted"] }

\* fetch(url, options): the request is recorded as the transport received it.
Fetch(u, init) == Append(sent, [url |-> u, init |-> init])

FetchResolve(id, status) ==
    /\ pc = "awaiting"
    /\ promise.state = "pending"
    /\ promise' = [state |-> "fulfilled", response |-> Response(id, status)]
    /\ UNCHANGED <<pc, fn, url, given, options, sent, outcome>>
    /\ UNCHANGED <<logVars, jsonVars>>

FetchReject(e) ==
    /\ pc = "awaiting"
    /\ promise.state = "pending"
    /\ promise' = [state |-> "rejected", error |-> e]
    /\ UNCHANGED <<pc, fn, url, given, options, sent, outcome>>
    /\ UNCHANGED <<logVars, jsonVars>>

----------------------------------------------------------------------------
(* get and post                                                            *)

Pending == [state |-> "pending"]

Returned(r) == [kind |-> "returned", value |-> r]
Thrown(e)   == [kind |-> "thrown", error |-> e]

\* const response = await fetch(url, options);   -- up to the await
GetCall(u, o) ==
    /\ pc = "idle"
    /\ fn' = "get"
    /\ url' = u
    /\ given' = o
    /\ options' = o
    /\ sent' = Fetch(u, o)
    /\ promise' = Pending
    /\ outcome' = None
    /\ pc' = "awaiting"
    /\ UNCHANGED <<logVars, jsonVars>>

\* Mutant: the message leaves out the address.
GetMessageMutantNoUrl(status, u) ==
    NumberToString(status) \o " could not get URL"

GetMessage(status, u) ==
    NumberToString(status) \o " could not get URL " \o UrlToString(u)

\* Mutant: a failed request is issued once more instead of being reported.
GetResumeMutantRetry ==
    /\ pc = "awaiting"
    /\ fn = "get"
    /\ promise.state # "pending"
    /\ IF (promise.state = "rejected" \/ ~promise.response.ok) /\ Len(sent) < 2
       THEN /\ sent' = Fetch(url, options)
            /\ promise' = [state |-> "pending"]
            /\ UNCHANGED <<pc, outcome>>
       ELSE /\ outcome' =
                 IF promise.state = "rejected" THEN [kind |-> "thrown", error |-> promise.error]
                 ELSE [kind |-> "returned", value |-> promise.response]
            /\ pc' = "done"
            /\ UNCHANGED <<sent, promise>>
    /\ UNCHANGED <<fn, url, given, options>>
    /\ UNCHANGED <<logVars, jsonVars>>

\* The rest of get, run when the awaited promise has settled.
GetResume ==
    /\ pc = "awaiting"
    /\ fn = "get"
    /\ promise.state # "pending"
    /\ outcome' =
         IF promise.state = "rejected" THEN Thrown(promise.error)
         ELSE IF ~promise.response.ok
              THEN Thrown(NewError(GetMessage(promise.response.status, url)))
              ELSE Returned(promise.response)
    /\ pc' = "done"
    /\ UNCHANGED <<fn, url, given, options, sent, promise>>
    /\ UNCHANGED <<logVars, jsonVars>>

\* Mutant: the method is set only when the configuration has none.
SetMethodMutantDefault(o) ==
    [o EXCEPT !.fields =
        [f \in DOMAIN o.fields \cup {"method"} |->
            IF f \in DOMAIN o.fields THEN o.fields[f] ELSE "POST"]]

\* options.method = "POST";
SetMethod(o) ==
    [o EXCEPT !.fields =
        [f \in DOMAIN o.fields \cup {"method"} |->
            IF f = "method" THEN "POST" ELSE o.fields[f]]]

\* Mutant: the method is set on a copy and the caller's object is left alone.
PostCallMutantCopy(u, o) ==
    /\ pc = "idle"
    /\ fn' = "post"
    /\ url' = u
    /\ given' = o
    /\ options' = o
    /\ sent' = Fetch(u, [o EXCEPT !.fields =
                            [f \in DOMAIN o.fields \cup {"method"} |->
                                IF f = "method" THEN "POST" ELSE o.fields[f]]])
    /\ promise' = [state |-> "pending"]
    /\ outcome' = None
    /\ pc' = "awaiting"
    /\ UNCHANGED <<logVars, jsonVars>>

\* options.method = "POST"; const response = await fetch(url, options);
PostCall(u, o) ==
    /\ pc = "idle"
    /\ fn' = "post"
    /\ url' = u
    /\ given' = o
    /\ options' = SetMethod(o)
    /\ sent' = Fetch(u, SetMethod(o))
    /\ promise' = Pending
    /\ outcome' = None
    /\ pc' = "awaiting"
    /\ UNCHANGED <<logVars, jsonVars>>

PostMessage(status, u) ==
    NumberToString(status) \o " could not post URL " \o UrlToString(u)

\* Mutant: the response is returned without looking at its status.
PostResumeMutantNoCheck ==
    /\ pc = "awaiting"
    /\ fn = "post"
    /\ promise.state # "pending"
    /\ outcome' =
         IF promise.state = "rejected" THEN Thrown(promise.error)
         ELSE Returned(promise.response)
    /\ pc' = "done"
    /\ UNCHANGED <<fn, url, given, options, sent, promise>>
    /\ UNCHANGED <<logVars, jsonVars>>

\* The rest of post, run when the awaited promise has settled.
PostResume ==
    /\ pc = "awaiting"
    /\ fn = "post"
    /\ promise.state # "pending"
    /\ outcome' =
         IF promise.state = "rejected" THEN Thrown(promise.error)
         ELSE IF ~promise.response.ok
              THEN Thrown(NewError(PostMessage(promise.response.status, url)))
              ELSE Returned(promise.response)
    /\ pc' = "done"
    /\ UNCHANGED <<fn, url, given, options, sent, promise>>
    /\ UNCHANGED <<logVars, jsonVars>>

\* The caller has the result (or has caught the error) and makes its next call.
HttpCallerContinues ==
    /\ pc = "done"
    /\ pc' = "idle"
    /\ fn' = "none"
    /\ url' = None
    /\ given' = Undefined
    /\ options' = Undefined
    /\ sent' = <<>>
    /\ promise' = Pending
    /\ outcome' = None
    /\ UNCHANGED <<logVars, jsonVars>>

HttpInit ==
    /\ pc = "idle"
    /\ fn = "none"
    /\ url = None
    /\ given = Undefined
    /\ options = Undefined
    /\ sent = <<>>
    /\ promise = Pending
    /\ outcome = None

HttpNext ==
    \/ \E u \in Urls, o \in RequestInits \cup {Undefined} : GetCall(u, o)
    \/ \E u \in Urls, o \in RequestInits : PostCall(u, o)
    \/ \E id \in ResponseIds, s \in Statuses : FetchResolve(id, s)
    \/ \E e \in TransportErrors : FetchReject(e)
    \/ GetResume
    \/ PostResume
    \/ HttpCallerContinues

----------------------------------------------------------------------------
(* Numbers.  A finite Number is kept as a decimal: the sequence of its     *)
(* coefficient digits (no leading or trailing zero; empty for zero) times  *)
(* ten to the power exp.  This is the IEEE-754 double JSON.parse produces  *)
(* for every integer literal, which is rounded to 53 significant bits      *)
(* below, for every literal beyond the double range, which becomes         *)
(* Infinity or zero, and for every literal with a fraction or an exponent  *)
(* that has at most 15 significant digits and a magnitude between 1e-300   *)
(* and 1e300 (such a decimal is never rounded to an integer and two of     *)
(* them never share a double).  The rounding of an integer is computed    *)
(* bit by bit, which TLC evaluates for integers of up to some 30 digits.   *)
(* The documents of JsonTexts stay within both.                            *)

Digits == {"0", "1", "2", "3", "4", "5", "6", "7", "8", "9"}

DigitVal(c) == CHOOSE d \in 0..9 : DigitChar(d) = c

IsDigit(s, i) == i <= Len(s) /\ CharAt(s, i) \in Digits

\* The digits of a string of digits, most significant first.
DigitSeq(s) == [i \in 1..Len(s) |-> DigitVal(CharAt(s, i))]

Least(S) == CHOOSE i \in S : \A j \in S : i <= j
Most(S)  == CHOOSE i \in S : \A j \in S : i >= j

NonZero(d) == {i \in 1..Len(d) : d[i] # 0}

StripLeadingZeros(d) ==
    IF NonZero(d) = {} THEN <<>> ELSE SubSeq(d, Least(NonZero(d)), Len(d))

Zeros(n) == [i \in 1..n |-> 0]

\* d < t for digit sequences without leading zeros.
Less(d, t) ==
    \/ Len(d) < Len(t)
    \/ /\ Len(d) = Len(t)
       /\ \E i \in 1..Len(d) : d[i] < t[i] /\ \A j \in 1..(i - 1) : d[j] = t[j]

\* d divided by two (the remainder dropped): the remainder carried into a
\* digit is the parity of the digit before it.
Half(d) ==
    StripLeadingZeros(
        [i \in 1..Len(d) |-> (10 * (IF i = 1 THEN 0 ELSE d[i - 1] % 2) + d[i]) \div 2])

\* d times two: the carry into a digit is 1 when the digit after it is 5 or more.
Twice(d) ==
    StripLeadingZeros(
        [i \in 1..(Len(d) + 1) |->
            (2 * (IF i = 1 THEN 0 ELSE d[i - 1])
               + (IF i <= Len(d) /\ d[i] >= 5 THEN 1 ELSE 0)) % 10])

\* d plus one: the trailing nines turn to zero and the digit before them grows.
PlusOne(d) ==
    LET nines == {i \in 1..Len(d) : \A j \in i..Len(d) : d[j] = 9}
    IN  IF nines = 1..Len(d) THEN <<1>> \o Zeros(Len(d))
        ELSE [i \in 1..Len(d) |->
                IF i \in nines THEN 0
                ELSE IF i + 1 \in nines \/ i = Len(d) THEN d[i] + 1
                ELSE d[i]]

IsOdd(d) == d # <<>> /\ d[Len(d)] % 2 = 1

\* d doubled k times.
RECURSIVE TwiceTimes(_, _)
TwiceTimes(d, k) ==
    IF k = 0 \/ d = <<>> THEN d ELSE TwiceTimes(Twice(d), k - 1)

\* 2^53: an integer below it is a double as it stands.
TwoTo53 == DigitSeq("9007199254740992")

\* The non-negative integer d, of which k low bits were already shifted out
\* (round is the last of them, sticky tells whether an earlier one was set),
\* rounded to a 53-bit significand, ties to even.
RECURSIVE RoundBits(_, _, _, _)
RoundBits(d, k, round, sticky) ==
    IF Less(d, TwoTo53)
    THEN TwiceTimes(IF round /\ (sticky \/ IsOdd(d)) THEN PlusOne(d) ELSE d, k)
    ELSE IF sticky \/ round
    THEN RoundBits(Half(d), k + 1, IsOdd(d), TRUE)
    ELSE RoundBits(Half(d), k + 1, IsOdd(d), FALSE)

\* The double nearest to the non-negative integer d.
RoundToDouble(d) == RoundBits(StripLeadingZeros(d), 0, FALSE, FALSE)

\* The Number with coefficient digits coef and decimal exponent e.
Canonical(neg, coef, e) ==
    LET c == StripLeadingZeros(coef)
    IN  IF c = <<>> THEN [neg |-> neg, inf |-> FALSE, digits |-> <<>>, exp |-> 0]
        ELSE [neg |-> neg, inf |-> FALSE,
              digits |-> SubSeq(c, 1, Most(NonZero(c))),
              exp |-> e + Len(c) - Most(NonZero(c))]

Infinity(neg) == [neg |-> neg, inf |-> TRUE, digits |-> <<>>, exp |-> 0]

\* The Number a JSON number literal denotes: sign, integer part, fraction and
\* exponent (as an integer) of the literal.  A value of 1e310 or more is
\* Infinity, one below 1e-325 is zero.
ToNumber(neg, int, frac, e) ==
    LET n == Canonical(neg, DigitSeq(int \o frac), e - Len(frac))
        p == Len(n.digits) + n.exp
    IN  IF n.digits = <<>> THEN n
        ELSE IF p > 310 THEN Infinity(neg)
        ELSE IF p < -325 THEN Canonical(neg, <<>>, 0)
        ELSE IF n.exp >= 0 /\ p > 15
        THEN Canonical(neg, RoundToDouble(n.digits \o Zeros(n.exp)), 0)
        ELSE n

\* Number.isInteger(value)
NumberIsInteger(value) ==
    /\ value.t = "number"
    /\ ~value.num.inf
    /\ value.num.exp >= 0

\* The decimal digits of an integer-valued Number.
IntegerDigits(num) == num.digits \o Zeros(num.exp)

----------------------------------------------------------------------------
(* JSON.parse: the text is parsed into a tree whose primitive nodes keep   *)
(* their source text.  Whitespace is space, tab, line feed and carriage    *)
(* return; string escapes are the single-character ones (\uXXXX is left    *)
(* out and no document of JsonTexts uses it).  Each step hands what it     *)
(* has scanned to the next one as an argument.                             *)

Whitespace == {" ", "\t", "\n", "\r"}

Fail == [ok |-> FALSE]

Ok(val, pos) == [ok |-> TRUE, val |-> val, pos |-> pos]

IsChar(s, i, c) == i <= Len(s) /\ CharAt(s, i) = c

\* The first position at or after i that holds no whitespace.
SkipWs(s, i) ==
    Least({j \in i..(Len(s) + 1) : j > Len(s) \/ CharAt(s, j) \notin Whitespace})

\* The first position at or after i that holds no digit.
DigitsEnd(s, i) == Least({j \in i..(Len(s) + 1) : ~IsDigit(s, j)})

RECURSIVE DigitsValue(_)
DigitsValue(d) ==
    IF d = <<>> THEN 0
    ELSE 10 * DigitsValue(SubSeq(d, 1, Len(d) - 1)) + d[Len(d)]

\* The value of the digits of an exponent; one of five digits or more is far
\* beyond the double range on either side and is kept as 10000.
ExponentDigits(d) == IF Len(d) > 4 THEN 10000 ELSE DigitsValue(d)

ExponentValue(s) == ExponentDigits(StripLeadingZeros(DigitSeq(s)))

\* number: -? (0 | [1-9][0-9]*) (. [0-9]+)? ([eE] [+-]? [0-9]+)?
\* The exponent part, from position fracEnd on; expStart is where its digits
\* start when there is one.
ScanExponent(s, i, int, frac, fracEnd, expStart) ==
    IF ~(IsChar(s, fracEnd, "e") \/ IsChar(s, fracEnd, "E"))
    THEN [ok |-> TRUE, neg |-> IsChar(s, i, "-"), int |-> int, frac |-> frac,
          e |-> 0, pos |-> fracEnd]
    ELSE IF DigitsEnd(s, expStart) = expStart THEN Fail
    ELSE [ok |-> TRUE, neg |-> IsChar(s, i, "-"), int |-> int, frac |-> frac,
          e |-> (IF IsChar(s, fracEnd + 1, "-") THEN -1 ELSE 1)
                * ExponentValue(SubSeq(s, expStart, DigitsEnd(s, expStart) - 1)),
          pos |-> DigitsEnd(s, expStart)]

AfterFraction(s, i, int, frac, fracEnd) ==
    ScanExponent(s, i, int, frac, fracEnd,
                 IF IsChar(s, fracEnd + 1, "-") \/ IsChar(s, fracEnd + 1, "+")
                 THEN fracEnd + 2 ELSE fracEnd + 1)

\* The fraction part, from position intEnd on; fracEnd is where its digits end
\* when there is one.
ScanFraction(s, i, int, intEnd, fracEnd) ==
    IF ~IsChar(s, intEnd, ".") THEN AfterFraction(s, i, int, "", intEnd)
    ELSE IF fracEnd = intEnd + 1 THEN Fail
    ELSE AfterFraction(s, i, int, SubSeq(s, intEnd + 1, fracEnd - 1), fracEnd)

\* The integer part, which runs from intStart to before intEnd.
ScanInteger(s, i, intStart, intEnd) ==
    IF intEnd = intStart THEN Fail
    ELSE ScanFraction(s, i, SubSeq(s, intStart, intEnd - 1), intEnd,
                      DigitsEnd(s, intEnd + 1))

AfterSign(s, i, intStart) ==
    ScanInteger(s, i, intStart,
                IF IsChar(s, intStart, "0") THEN intStart + 1
                ELSE DigitsEnd(s, intStart))

\* The parts of the number literal that starts at position i of s.
NumberLiteral(s, i) == AfterSign(s, i, IF IsChar(s, i, "-") THEN i + 1 ELSE i)

NumberNode(s, i, l) ==
    IF ~l.ok THEN Fail
    ELSE Ok([t      |-> "number",
             num    |-> ToNumber(l.neg, l.int, l.frac, l.e),
             source |-> SubSeq(s, i, l.pos - 1)],
            l.pos)

ParseNumber(s, i) == NumberNode(s, i, NumberLiteral(s, i))

Escapes == {"\"", "\\", "/", "b", "f", "n", "r", "t"}

\* The character an escape stands for (backspace and form feed are kept as
\* names: TLA+ strings have no such characters).
Unescape(c) ==
    CASE c = "n" -> "\n" [] c = "r" -> "\r" [] c = "t" -> "\t"
      [] c = "b" -> "<BS>" [] c = "f" -> "<FF>" [] OTHER -> c

\* The characters of a string from position i (after the opening quote) on;
\* acc is what was read so far.
RECURSIVE StringRest(_, _, _)
StringRest(s, i, acc) ==
    IF i > Len(s) \/ CharAt(s, i) \in {"\n", "\r", "\t"} THEN Fail
    ELSE IF CharAt(s, i) = "\"" THEN Ok(acc, i + 1)
    ELSE IF CharAt(s, i) = "\\"
         THEN IF i + 1 <= Len(s) /\ CharAt(s, i + 1) \in Escapes
              THEN StringRest(s, i + 2, acc \o Unescape(CharAt(s, i + 1)))
              ELSE Fail
    ELSE StringRest(s, i + 1, acc \o CharAt(s, i))

StringNode(s, i, r) ==
    IF ~r.ok THEN Fail
    ELSE Ok([t |-> "string", s |-> r.val, source |-> SubSeq(s, i, r.pos - 1)],
            r.pos)

ParseString(s, i) ==
    IF ~IsChar(s, i, "\"") THEN Fail
    ELSE StringNode(s, i, StringRest(s, i + 1, ""))

ParseWord(s, i, word, node) ==
    IF i + Len(word) - 1 <= Len(s) /\ SubSeq(s, i, i + Len(word) - 1) = word
    THEN Ok(node, i + Len(word)) ELSE Fail

\* Index of key k in keys, or 0.
KeyIndex(keys, k) ==
    IF \E j \in 1..Len(keys) : keys[j] = k
    THEN CHOOSE j \in 1..Len(keys) : keys[j] = k ELSE 0

\* The property k: v is defined on the object under construction: a repeated
\* key keeps its place and takes the later value.
DefineProperty(obj, k, v) ==
    IF KeyIndex(obj.keys, k) = 0
    THEN [obj EXCEPT !.keys = Append(@, k), !.vals = Append(@, v)]
    ELSE [obj EXCEPT !.vals[KeyIndex(obj.keys, k)] = v]

EmptyArray  == [t |-> "array", items |-> <<>>]
EmptyObject == [t |-> "object", keys |-> <<>>, vals |-> <<>>]

RECURSIVE ParseValue(_, _), ParseElements(_, _, _), ParseMembers(_, _, _)

\* After [ and whitespace: ] or the elements.
ArrayFrom(s, j) ==
    IF IsChar(s, j, "]") THEN Ok(EmptyArray, j + 1)
    ELSE ParseElements(s, j, <<>>)

\* After { and whitespace: } or the members.
ObjectFrom(s, j) ==
    IF IsChar(s, j, "}") THEN Ok(EmptyObject, j + 1)
    ELSE ParseMembers(s, j, EmptyObject)

\* The value at position i, c being the character there.
ValueAt(s, i, c) ==
    CASE c = "n" -> ParseWord(s, i, "null", [t |-> "null", source |-> "null"])
      [] c = "t" -> ParseWord(s, i, "true",
                              [t |-> "boolean", b |-> TRUE, source |-> "true"])
      [] c = "f" -> ParseWord(s, i, "false",
                              [t |-> "boolean", b |-> FALSE, source |-> "false"])
      [] c = "\"" -> ParseString(s, i)
      [] c = "[" -> ArrayFrom(s, SkipWs(s, i + 1))
      [] c = "{" -> ObjectFrom(s, SkipWs(s, i + 1))
      [] c = "-" \/ c \in Digits -> ParseNumber(s, i)
      [] OTHER -> Fail

\* value at position i (whitespace before it already skipped).
ParseValue(s, i) == IF i > Len(s) THEN Fail ELSE ValueAt(s, i, CharAt(s, i))

\* After an element and whitespace: ] ends the array, a comma goes on.
ElementsNext(s, items, j) ==
    IF IsChar(s, j, "]") THEN Ok([t |-> "array", items |-> items], j + 1)
    ELSE IF IsChar(s, j, ",") THEN ParseElements(s, SkipWs(s, j + 1), items)
    ELSE Fail

ElementParsed(s, items, r) ==
    IF ~r.ok THEN Fail
    ELSE ElementsNext(s, Append(items, r.val), SkipWs(s, r.pos))

\* The elements of an array from position i on: value (, value)* ]
ParseElements(s, i, items) == ElementParsed(s, items, ParseValue(s, i))

\* After a member and whitespace: } ends the object, a comma goes on.
MembersNext(s, obj, j) ==
    IF IsChar(s, j, "}") THEN Ok(obj, j + 1)
    ELSE IF IsChar(s, j, ",") THEN ParseMembers(s, SkipWs(s, j + 1), obj)
    ELSE Fail

MemberParsed(s, obj, key, r) ==
    IF ~r.ok THEN Fail
    ELSE MembersNext(s, DefineProperty(obj, key, r.val), SkipWs(s, r.pos))

\* After a key and whitespace: the colon and the value.
MemberValue(s, obj, key, c) ==
    IF ~IsChar(s, c, ":") THEN Fail
    ELSE MemberParsed(s, obj, key, ParseValue(s, SkipWs(s, c + 1)))

KeyParsed(s, obj, k) ==
    IF ~k.ok THEN Fail ELSE MemberValue(s, obj, k.val.s, SkipWs(s, k.pos))

\* The members of an object from position i on: string : value (, ...)* }
ParseMembers(s, i, obj) == KeyParsed(s, obj, ParseString(s, i))

WholeText(s, r) ==
    IF r.ok /\ SkipWs(s, r.pos) = Len(s) + 1 THEN r ELSE Fail

\* The whole text: whitespace, one value, whitespace, end of text.
JSONParseText(s) == WholeText(s, ParseValue(s, SkipWs(s, 1)))

----------------------------------------------------------------------------
(* parseJSON                                                               *)

SyntaxError(from) == [kind |-> "SyntaxError", from |-> from]

Normal(v) == [ok |-> TRUE, val |-> v]
Throw(e)  == [ok |-> FALSE, error |-> e]

BigIntOf(neg, mag) == [t |-> "bigint", neg |-> neg /\ mag # <<>>, mag |-> mag]

BigIntDigits(neg, body) ==
    IF \E j \in 1..Len(body) : ~IsDigit(body, j)
    THEN Throw(SyntaxError("BigInt"))
    ELSE Normal(BigIntOf(neg, StripLeadingZeros(DigitSeq(body))))

\* BigInt(string): an optional sign and decimal digits make an integer (the
\* empty string makes 0n); there is no negative zero.  mag holds the digits
\* of the magnitude, none for 0n.  Any other text of the characters a JSON
\* number can hold is a SyntaxError.
BigInt(str) ==
    IF IsChar(str, 1, "-") \/ IsChar(str, 1, "+")
    THEN IF Len(str) = 1 THEN Throw(SyntaxError("BigInt"))
         ELSE BigIntDigits(IsChar(str, 1, "-"), Tail(str))
    ELSE BigIntDigits(FALSE, str)

\* Mutant: every number is converted, integer or not.
ReviveMutantAnyNumber(key, value, context) ==
    IF value.t = "number"
    THEN BigInt(context.source)
    ELSE Normal(value)

\* function revive(key, value, context)
Revive(key, value, context) ==
    IF NumberIsInteger(value)
    THEN BigInt(context.source)
    ELSE Normal(value)

\* The JavaScript value of a primitive node.
PrimitiveValue(node) ==
    CASE node.t = "null"    -> [t |-> "null"]
      [] node.t = "boolean" -> [t |-> "boolean", b |-> node.b]
      [] node.t = "number"  -> [t |-> "number", num |-> node.num]
      [] node.t = "string"  -> [t |-> "string", s |-> node.s]

\* The context the reviver gets: { source } with a primitive, {} with an
\* array or an object.
SourceContext(node) == [source |-> node.source]
EmptyContext == [none |-> TRUE]

ArrayKeys(items) == [j \in 1..Len(items) |-> NumberToString(j - 1)]

RECURSIVE InternalizeJSONProperty(_, _), InternalizeAll(_, _, _, _)

\* The holder is revived once its children are: r holds their new values.
ReviveArray(key, r) ==
    IF r.ok THEN Revive(key, [t |-> "array", items |-> r.val], EmptyContext)
    ELSE r

ReviveObject(key, keys, r) ==
    IF r.ok
    THEN Revive(key, [t |-> "object", keys |-> keys, vals |-> r.val], EmptyContext)
    ELSE r

\* JSON.parse's walk with a reviver: the children first, in order, each
\* replaced by what the reviver returned for it, then the holder itself.  A
\* throw of the reviver ends the walk.
InternalizeJSONProperty(key, node) ==
    CASE node.t = "array" ->
           ReviveArray(key, InternalizeAll(node.items, ArrayKeys(node.items), 1, <<>>))
      [] node.t = "object" ->
           ReviveObject(key, node.keys, InternalizeAll(node.vals, node.keys, 1, <<>>))
      [] OTHER -> Revive(key, PrimitiveValue(node), SourceContext(node))

ChildRevived(nodes, keys, j, done, r) ==
    IF r.ok THEN InternalizeAll(nodes, keys, j + 1, Append(done, r.val)) ELSE r

InternalizeAll(nodes, keys, j, done) ==
    IF j > Len(nodes) THEN Normal(done)
    ELSE ChildRevived(nodes, keys, j, done,
                      InternalizeJSONProperty(keys[j], nodes[j]))

Internalize(p) ==
    IF ~p.ok THEN Throw(SyntaxError("JSON.parse"))
    ELSE InternalizeJSONProperty("", p.val)

\* JSON.parse(text, reviver)
JSONParse(text) == Internalize(JSONParseText(text))

Completion(r) == IF r.ok THEN Returned(r.val) ELSE Thrown(r.error)

\* Mutant: a failure of JSON.parse is caught and undefined is returned.
ParseJSONMutantCatch(json) ==
    LET r == JSONParse(json)
    IN  IF r.ok THEN Returned(r.val) ELSE Returned(Undefined)

\* return JSON.parse(json, revive as any);
ParseJSON(json) == Completion(JSONParse(json))

\* JSON.parse(text) without a reviver: the standard parse.
RECURSIVE ValueOf(_)
ValueOf(node) ==
    CASE node.t = "array" ->
           [t |-> "array", items |-> [j \in 1..Len(node.items) |-> ValueOf(node.items[j])]]
      [] node.t = "object" ->
           [t |-> "object", keys |-> node.keys,
            vals |-> [j \in 1..Len(node.vals) |-> ValueOf(node.vals[j])]]
      [] OTHER -> PrimitiveValue(node)

ParsedValue(p) ==
    IF ~p.ok THEN Thrown(SyntaxError("JSON.parse")) ELSE Returned(ValueOf(p.val))

StandardParse(text) == ParsedValue(JSONParseText(text))

ParseJSONCall(json) ==
    /\ jsonPc = "idle"
    /\ jsonInput' = json
    /\ jsonOutcome' = ParseJSON(json)
    /\ jsonPc' = "done"
    /\ UNCHANGED <<logVars, httpVars>>

\* The caller has the value (or has caught the error) and makes its next call.
JsonCallerContinues ==
    /\ jsonPc = "done"
    /\ jsonPc' = "idle"
    /\ jsonInput' = ""
    /\ jsonOutcome' = None
    /\ UNCHANGED <<logVars, httpVars>>

----------------------------------------------------------------------------
(* The JSON texts the caller passes to parseJSON.  The well-formed ones    *)
(* are built by the JSON grammar from the leaves below, the malformed ones *)
(* break the grammar in a known way.                                       *)

MaxDepth == 2

OtherLeaves == {"null", "true", "false", "\"\"", "\"a b\"", "\"17\"", "\"x\\ny\""}

\* Numbers whose value is no integer.
FloatLeaves == {"1.5", "0.25", "-2.5", "1e-1", "12.5e-1", "1e400"}

\* Integers written as plain digits.
DigitLeaves ==
    {"0", "7", "-13", "42", "9007199254740993", "123456789012345678"}

\* Integer values written otherwise, or read as an integer by the double.
IntegerValuedLeaves == {"1.0", "1e3", "-0", "1.5e1", "2E+2", "1e-400"}

Leaves == OtherLeaves \cup FloatLeaves \cup DigitLeaves \cup IntegerValuedLeaves

Wrap(x) ==
    { "[" \o x \o "]",
      "{\"a\":" \o x \o "}",
      " [ true , " \o x \o " ]\n" }

RECURSIVE Nested(_)
Nested(d) ==
    IF d = 0 THEN Leaves
    ELSE Nested(d - 1) \cup UNION { Wrap(x) : x \in Nested(d - 1) }

\* Two leaves side by side, the second an integer or a float.
Pairs ==
    UNION { { "[" \o x \o "," \o y \o "]",
              "{\"a\":" \o x \o ",\"b\":" \o y \o "}" } :
            x \in Leaves, y \in DigitLeaves \cup {"1.5", "1.0"} }

WellFormedTexts == Nested(MaxDepth) \cup Pairs

\* A well-formed value with something missing or something added.
Corrupt(x) ==
    { "[" \o x,
      x \o "]",
      "{\"a\":" \o x,
      "{" \o x \o "}",
      x \o " " \o x,
      "[" \o x \o ",]" }

BrokenTexts ==
    { "", " ", "{", "[", "}", "tru", "nulll", "True", "01", "1.", ".5", "-",
      "+1", "1e", "1e+", "0x10", "1n", "NaN", "Infinity", "undefined",
      "{a:1}", "{\"a\" 1}", "{\"a\":1,}", "{\"a\"}", "{1:2}", "'a'", "\"abc",
      "\"a\nb\"", "\"\\x\"", "[1 2]", "[,1]", "[1,,2]" }

MalformedTexts ==
    BrokenTexts \cup UNION { Corrupt(x) : x \in Nested(MaxDepth - 1) }

JsonTexts == WellFormedTexts \cup MalformedTexts

JsonNext ==
    \/ \E json \in JsonTexts : ParseJSONCall(json)
    \/ JsonCallerContinues

----------------------------------------------------------------------------

JsonInit ==
    /\ jsonPc = "idle"
    /\ jsonInput = ""
    /\ jsonOutcome = None

Init == LogInit /\ HttpInit /\ JsonInit

SpecLog  == Init /\ [][LogNext]_vars
SpecHttp == Init /\ [][HttpNext]_vars
SpecJson == Init /\ [][JsonNext]_vars

----------------------------------------------------------------------------
(* Properties of get and post.                                             *)

InSuccessRange(status) == status \in 200..299

\* The decimal text of each status the transport answers with.
StatusText(status) ==
    CASE status = 0   -> "0"
      [] status = 200 -> "200"
      [] status = 204 -> "204"
      [] status = 299 -> "299"
      [] status = 300 -> "300"
      [] status = 404 -> "404"
      [] status = 500 -> "500"

Fulfilled == pc = "done" /\ promise.state = "fulfilled"

\* C1: get and post hand a response to the caller only when its status is in
\* the success range; the response handed over is the one the transport
\* produced, a response outside the range ends in a raised error, and nothing
\* is handed over before the call has finished.
C1_ReturnsOnlyOkResponses ==
    /\ pc # "done" => outcome = None
    /\ pc = "done" => outcome.kind \in {"returned", "thrown"}
    /\ (pc = "done" /\ outcome.kind = "returned") =>
          /\ promise.state = "fulfilled"
          /\ InSuccessRange(promise.response.status)
          /\ outcome.value = promise.response
    /\ (Fulfilled /\ ~InSuccessRange(promise.response.status)) =>
          outcome.kind = "thrown"

\* A post that was answered with 404 has ended in an error.
C1_Witness ==
    /\ Fulfilled
    /\ fn = "post"
    /\ promise.response.status = 404
    /\ outcome.kind = "thrown"

\* C2: a get answered with a status outside the success range raises an Error
\* whose message holds the status code and the requested address; one answered
\* with 200 returns that same response.
C2_GetStatusError ==
    (Fulfilled /\ fn = "get") =>
        /\ ~InSuccessRange(promise.response.status) =>
              /\ outcome.kind = "thrown"
              /\ outcome.error.kind = "Error"
              /\ Contains(outcome.error.message, StatusText(promise.response.status))
              /\ Contains(outcome.error.message, UrlToString(url))
        /\ promise.response.status = 200 => outcome = Returned(promise.response)

\* A get of http://n/a answered with 404 has raised "404 ... http://n/a".
C2_Witness ==
    /\ Fulfilled
    /\ fn = "get"
    /\ promise.response.status = 404
    /\ url = [kind |-> "string", text |-> "http://n/a"]
    /\ outcome.kind = "thrown"
    /\ Contains(outcome.error.message, "404")
    /\ Contains(outcome.error.message, "http://n/a")

\* C3: whatever configuration post is called with, the request it sends has
\* the method POST, and the outcome follows the status as with get: a status
\* in the success range returns the response, any other raises an Error that
\* names the status and the address.
C3_PostForcesMethod ==
    fn = "post" =>
        /\ \A j \in 1..Len(sent) :
              /\ "method" \in DOMAIN sent[j].init.fields
              /\ sent[j].init.fields.method = "POST"
        /\ Fulfilled =>
              IF InSuccessRange(promise.response.status)
              THEN outcome = Returned(promise.response)
              ELSE /\ outcome.kind = "thrown"
                   /\ outcome.error.kind = "Error"
                   /\ Contains(outcome.error.message,
                               StatusText(promise.response.status))
                   /\ Contains(outcome.error.message, UrlToString(url))

\* A post called with the method GET has sent a POST request.
C3_Witness ==
    /\ fn = "post"
    /\ pc = "done"
    /\ "method" \in DOMAIN given.fields
    /\ given.fields.method = "GET"
    /\ Len(sent) = 1
    /\ sent[1].init.fields.method = "POST"

\* C8: each call of get or post makes exactly one request; the outcome is
\* decided only after that request has completed, a failed status is reported
\* and not retried, and an error of the transport reaches the caller as it is.
C8_SingleRequestNoRetry ==
    /\ pc = "idle" => sent = <<>>
    /\ pc \in {"awaiting", "done"} => Len(sent) = 1
    /\ outcome # None => (pc = "done" /\ promise.state # "pending")
    /\ (pc = "done" /\ promise.state = "rejected") =>
          outcome = Thrown(promise.error)
    /\ (Fulfilled /\ ~InSuccessRange(promise.response.status)) =>
          (outcome.kind = "thrown" /\ outcome.error.kind = "Error")

\* A call whose request the transport rejected has raised that error after
\* one request.
C8_Witness ==
    /\ pc = "done"
    /\ promise.state = "rejected"
    /\ promise.error \in TransportErrors
    /\ outcome = Thrown(promise.error)
    /\ Len(sent) = 1

\* C9: get passes the address and the configuration on as given and changes
\* neither; post writes the method into the caller's own configuration object,
\* sends that object, and leaves its other fields as they were.
C9_ConfigurationPassThrough ==
    /\ (fn = "get" /\ pc # "idle") =>
          /\ sent = <<[url |-> url, init |-> given]>>
          /\ options = given
    /\ (fn = "post" /\ pc # "idle") =>
          /\ Len(sent) = 1
          /\ sent[1].url = url
          /\ sent[1].init = options
          /\ DOMAIN options.fields = DOMAIN given.fields \cup {"method"}
          /\ options.fields.method = "POST"
          /\ \A f \in DOMAIN given.fields \ {"method"} :
                options.fields[f] = given.fields[f]

\* A post called with method, headers and body has changed the method of the
\* caller's object and nothing else.
C9_Witness ==
    /\ fn = "post"
    /\ pc = "done"
    /\ DOMAIN given.fields = Fields
    /\ given.fields.method # "POST"
    /\ options.fields.method = "POST"
    /\ options.fields.headers = given.fields.headers
    /\ options.fields.body = given.fields.body
    /\ sent[1].init = options

----------------------------------------------------------------------------
(* Properties of logAndThrow.                                              *)

\* C4: logAndThrow writes the message to the error log exactly once, then
\* raises an Error whose message is that same text; it never returns.
C4_LogsOnceThenThrows ==
    /\ logPc \in {"idle", "line2", "line3", "raised"}
    /\ logPc = "line2" => (logSink = logAtCall /\ logRaised = None)
    /\ logPc = "line3" => (logSink = Append(logAtCall, logMsg) /\ logRaised = None)
    /\ logPc = "raised" =>
          /\ logSink = Append(logAtCall, logMsg)
          /\ logRaised = [kind |-> "Error", message |-> logMsg]

\* logAndThrow("no record") has logged the text once and raised it.
C4_Witness ==
    /\ logPc = "raised"
    /\ logMsg = "no record"
    /\ logSink = Append(logAtCall, "no record")
    /\ logRaised.message = "no record"

----------------------------------------------------------------------------
(* Properties of parseJSON.                                                *)

Done == jsonPc = "done"

\* The number a literal denotes, exactly, with no rounding.
ExactNumber(l) == Canonical(l.neg, DigitSeq(l.int \o l.frac), l.e - Len(l.frac))

ExactValue(source) == ExactNumber(NumberLiteral(source, 1))

\* The literal is one of -? digits.
PlainDigits(source) ==
    \A j \in 1..Len(source) :
        IsDigit(source, j) \/ (j = 1 /\ CharAt(source, 1) = "-")

\* v is the arbitrary-precision integer that the literal denotes.
IsIntegerOf(v, source) ==
    /\ v.t = "bigint"
    /\ v.mag = IntegerDigits(ExactValue(source))
    /\ v.neg = (ExactValue(source).neg /\ v.mag # <<>>)

IntegerValued(source) == ExactValue(source).exp >= 0

\* The leaves spoken of: all whose literal denotes an integer, or only those
\* written as plain digits.
Picked(source, plainOnly) ==
    IF plainOnly THEN PlainDigits(source) ELSE IntegerValued(source)

\* Every picked numeric leaf of the parsed text has, at the same place of the
\* value v, the integer its own literal denotes.
RECURSIVE LeavesReplaced(_, _, _)
LeavesReplaced(node, v, plainOnly) ==
    CASE node.t = "array" ->
           /\ v.t = "array"
           /\ Len(v.items) = Len(node.items)
           /\ \A j \in 1..Len(node.items) :
                 LeavesReplaced(node.items[j], v.items[j], plainOnly)
      [] node.t = "object" ->
           /\ v.t = "object"
           /\ v.keys = node.keys
           /\ \A j \in 1..Len(node.vals) :
                 LeavesReplaced(node.vals[j], v.vals[j], plainOnly)
      [] node.t = "number" ->
           Picked(node.source, plainOnly) => IsIntegerOf(v, node.source)
      [] OTHER -> TRUE

\* C5: parseJSON replaces every integer-valued numeric leaf of a JSON document
\* by the arbitrary-precision integer of that leaf's own literal.
C5_IntegerLeavesBecomeBigInt ==
    (Done /\ jsonInput \in WellFormedTexts) =>
        /\ jsonOutcome.kind = "returned"
        /\ LeavesReplaced(JSONParseText(jsonInput).val, jsonOutcome.value,
                          FALSE)

\* For the leaves written as plain digits the replacement is as C5 says, each
\* leaf by its own digits, whenever parseJSON returns.
C5_PlainDigitLeaves ==
    (Done /\ jsonInput \in WellFormedTexts /\ jsonOutcome.kind = "returned") =>
        LeavesReplaced(JSONParseText(jsonInput).val, jsonOutcome.value,
                       TRUE)

\* No numeric leaf of the value is an integer to Number.isInteger.
RECURSIVE NoIntegerLeaf(_)
NoIntegerLeaf(v) ==
    CASE v.t = "array"  -> \A j \in 1..Len(v.items) : NoIntegerLeaf(v.items[j])
      [] v.t = "object" -> \A j \in 1..Len(v.vals) : NoIntegerLeaf(v.vals[j])
      [] v.t = "number" -> v.num.inf \/ v.num.exp < 0
      [] OTHER -> TRUE

C7_MalformedTextRaises ==
    (Done /\ jsonInput \in MalformedTexts) =>
        jsonOutcome = Thrown(SyntaxError("JSON.parse"))

\* parseJSON("{") has raised.
C7_Witness ==
    /\ Done
    /\ jsonInput = "{"
    /\ jsonOutcome.kind = "thrown"

\* C10: parseJSON raises only on malformed text; on a well-formed JSON text it
\* returns a value.
C10_WellFormedTextReturns ==
    (Done /\ jsonInput \in WellFormedTexts) => jsonOutcome.kind = "returned"

=============================================================================
